---- MODULE Spec2Model ----
(***************************************************************************)
(* Model of agent.py: the Neo4jTool read layer over the troubleshooting    *)
(* knowledge graph, the six tool functions registered on root_agent, and   *)
(* the graph store they query.                                             *)
(*                                                                         *)
(* Values coming out of the store are tagged with their Python type:       *)
(* a string, None (a Cypher null), or a list (a non-string property).      *)
(***************************************************************************)
EXTENDS Integers, Sequences, FiniteSets, TLC

VARIABLES
    store,      \* the graph behind the Neo4jGraph handle: the ids of its
                \* nodes and relationships, [nodes, edges]
    call,       \* the last tool call: [op, label, identifier, name]
    result,     \* what the last tool call gave back: [status, value, error]
    queries     \* the graph.query calls the last tool call made, in order

vars == <<store, call, result, queries>>

(* ---------------------------------------------------------------------- *)
(* Bounds                                                                  *)
(* ---------------------------------------------------------------------- *)
MaxNodes == 4
MaxEdges == 3

(* ---------------------------------------------------------------------- *)
(* Python values                                                           *)
(* ---------------------------------------------------------------------- *)
Str(s) == [t |-> "str", v |-> s]
None == [t |-> "None", v |-> ""]
ListValue == [t |-> "list", v |-> "[a, b]"]

PropNames == {"name", "code", "description"}

(* ---------------------------------------------------------------------- *)
(* The graph store                                                         *)
(* ---------------------------------------------------------------------- *)
Props(name, code, description) ==
    [name |-> name, code |-> code, description |-> description]

NodeUniverse ==
    { [id |-> 1, labels |-> <<"Symptom">>,
       props |-> Props(Str("leaking water"), None, None)],
      [id |-> 2, labels |-> <<"ProblemScenario">>,
       props |-> Props(None, None, Str("door seal worn"))],
      [id |-> 3, labels |-> <<"Action">>,
       props |-> Props(Str("replace_motor"), None, None)],
      [id |-> 4, labels |-> <<"ECode">>,
       props |-> Props(None, Str("E15"), None)],
      [id |-> 5, labels |-> <<"Action">>,
       props |-> Props(Str(""), None, None)],
      [id |-> 6, labels |-> <<"Symptom">>,
       props |-> Props(None, None, None)],
      [id |-> 7, labels |-> <<"ProblemScenario">>,
       props |-> Props(None, None, ListValue)],
      [id |-> 8, labels |-> <<"ECode">>,
       props |-> Props(None, Str("E07"), ListValue)] }

EdgeUniverse ==
    { [id |-> 11, src |-> 1, type |-> "INDICATES", dst |-> 2],
      [id |-> 12, src |-> 3, type |-> "FIXES",     dst |-> 2],
      [id |-> 13, src |-> 4, type |-> "INDICATES", dst |-> 2],
      [id |-> 14, src |-> 5, type |-> "FIXES",     dst |-> 7] }

NodeIds == { n.id : n \in NodeUniverse }
EdgeIds == { e.id : e \in EdgeUniverse }

Node(i) == CHOOSE n \in NodeUniverse : n.id = i
Edge(i) == CHOOSE e \in EdgeUniverse : e.id = i

Stores ==
    { [nodes |-> ns, edges |-> es] :
        ns \in { s \in SUBSET NodeIds : Cardinality(s) <= MaxNodes },
        es \in { s \in SUBSET EdgeIds : Cardinality(s) <= MaxEdges } }

\* a relationship connects two nodes of the graph
WellFormed(g) ==
    \A e \in g.edges : Edge(e).src \in g.nodes /\ Edge(e).dst \in g.nodes

HasLabel(n, l) == \E i \in 1..Len(n.labels) : n.labels[i] = l

\* the property map of a node as Cypher returns it: only the properties set
NodeProperties(n) ==
    [k \in { p \in PropNames : n.props[p] # None } |-> n.props[k]]

\* every ordering of a finite set, as sequences without repetition
Orderings(S) ==
    { s \in [1..Cardinality(S) -> S] : \A i, j \in 1..Cardinality(S) :
                                          s[i] = s[j] => i = j }

(* ---------------------------------------------------------------------- *)
(* Query texts                                                             *)
(* ---------------------------------------------------------------------- *)
ActionsQuery == <<"MATCH (a:Action) RETURN a.name AS name">>
ErrorCodesQuery ==
    <<"MATCH (e:ECode) RETURN e.code AS code, e.description AS description">>
ScenariosQuery ==
    <<"MATCH (p:ProblemScenario) RETURN p.description AS description">>
SymptomsQuery == <<"MATCH (s:Symptom) RETURN s.name AS name">>

NeighborsQueryTail ==
    ": $identifier})-[r]-(m) RETURN type(r) AS rel_type, labels(m) AS node_labels, m AS node"

\* mutant: the identifier is formatted into the text instead of being bound
NeighborsQuery_inline(label, property_key, identifier) ==
    << "MATCH (n:", label, " {", property_key, ": '", identifier,
       "'})-[r]-(m) RETURN type(r) AS rel_type, labels(m) AS node_labels, m AS node" >>

\* the f-string: only label and property_key are interpolated
NeighborsQuery(label, property_key, identifier) ==
    << "MATCH (n:", label, " {", property_key, NeighborsQueryTail >>

Query(text, params) == [text |-> text, params |-> params]


NoParams == {}
Params(name, value) == { <<name, value>> }
ParamValue(params, name) == (CHOOSE p \in params : p[1] = name)[2]

(* ---------------------------------------------------------------------- *)
(* graph.query: what the store does with a query                          *)
(* ---------------------------------------------------------------------- *)
Exception(type, args) == [type |-> type, args |-> args]
NoException == Exception("", <<>>)

\* what graph.query raises when the store is unreachable or the query fails
StoreErrors ==
    { Exception("ServiceUnavailable", <<"bolt://localhost:7687">>),
      Exception("CypherSyntaxError", <<>>) }

\* the label and the returned columns of the four "MATCH (x:L) RETURN ..." texts
ListQueryLabel(text) ==
    CASE text = ActionsQuery    -> "Action"
      [] text = ErrorCodesQuery -> "ECode"
      [] text = ScenariosQuery  -> "ProblemScenario"
      [] text = SymptomsQuery   -> "Symptom"

ListQueryColumns(text) ==
    CASE text = ActionsQuery    -> {"name"}
      [] text = ErrorCodesQuery -> {"code", "description"}
      [] text = ScenariosQuery  -> {"description"}
      [] text = SymptomsQuery   -> {"name"}

IsListQuery(text) ==
    text \in {ActionsQuery, ErrorCodesQuery, ScenariosQuery, SymptomsQuery}

IsNeighborsQuery(text) ==
    /\ Len(text) = 5
    /\ text[1] = "MATCH (n:"
    /\ text[3] = " {"
    /\ text[5] = NeighborsQueryTail

\* "RETURN x.k AS k": every column is present in the row, null when the
\* node has no such property
ListRow(n, columns) == [c \in columns |-> n.props[c]]

ListRows(g, text) ==
    LET matched == { n \in g.nodes : HasLabel(Node(n), ListQueryLabel(text)) }
    IN  { [i \in 1..Len(o) |-> ListRow(Node(o[i]), ListQueryColumns(text))] :
            o \in Orderings(matched) }

\* (n:label {key: $identifier})
MatchesNode(n, label, key, identifier) ==
    /\ HasLabel(n, label)
    /\ key \in PropNames
    /\ n.props[key] = Str(identifier)

\* m = <<relationship id, neighbor node id>>
NeighborRow(m) ==
    [rel_type    |-> Edge(m[1]).type,
     node_labels |-> Node(m[2]).labels,
     node        |-> NodeProperties(Node(m[2]))]

\* (n)-[r]-(m): the pattern is undirected, so an edge matches from either end
NeighborRows(g, text, params) ==
    LET identifier == ParamValue(params, "identifier")
        start(i) == MatchesNode(Node(i), text[2], text[4], identifier)
        matched == { <<e, Edge(e).dst>> : e \in { d \in g.edges : start(Edge(d).src) } }
                   \cup
                   { <<e, Edge(e).src>> : e \in { d \in g.edges : start(Edge(d).dst) } }
    IN  { [i \in 1..Len(o) |-> NeighborRow(o[i])] : o \in Orderings(matched) }

\* the possible outcomes of one graph.query call: the store fails, or it
\* returns the matching rows in an order of its choosing
graph_query(g, query) ==
    { [ok |-> FALSE, rows |-> <<>>, error |-> e] : e \in StoreErrors }
    \cup
    { [ok |-> TRUE, rows |-> rs, error |-> NoException] :
        rs \in (CASE IsListQuery(query.text) -> ListRows(g, query.text)
                  [] IsNeighborsQuery(query.text) ->
                        NeighborRows(g, query.text, query.params)
                  [] OTHER -> { <<>> }) }

\* the store after it has executed a query (as logged, with its outcome):
\* MATCH ... RETURN reads only, MERGE creates the node when no node matches
MergeActionQuery == <<"MERGE (a:Action {name: $name})">>

graph_after(g, query) ==
    IF query.ok /\ query.text = MergeActionQuery
    THEN LET name == ParamValue(query.params, "name")
         IN  IF \E n \in g.nodes : MatchesNode(Node(n), "Action", "name", name)
             THEN g
             ELSE [g EXCEPT !.nodes = @ \cup
                    { CHOOSE n \in NodeIds :
                        MatchesNode(Node(n), "Action", "name", name) }]
    ELSE g

RECURSIVE graph_after_all(_, _)
graph_after_all(g, qs) ==
    IF qs = <<>> THEN g
    ELSE graph_after_all(graph_after(g, Head(qs)), Tail(qs))

(* ---------------------------------------------------------------------- *)
(* Exceptions, results and effects of a call                               *)
(* ---------------------------------------------------------------------- *)
Return(value) == [status |-> "return", value |-> value, error |-> NoException]
Raise(e) == [status |-> "raise", value |-> <<>>, error |-> e]

\* one graph.query call as the store saw it, with what the store answered
Logged(query, out) ==
    [text |-> query.text, params |-> query.params,
     ok |-> out.ok, rows |-> out.rows, error |-> out.error]

Effect(qs, res) == [queries |-> qs, result |-> res]

(* ---------------------------------------------------------------------- *)
(* Pydantic models                                                         *)
(* ---------------------------------------------------------------------- *)
Valid(record) == [ok |-> TRUE, record |-> record, error |-> NoException]
Invalid(e) == [ok |-> FALSE, record |-> <<>>, error |-> e]

IsStr(x) == x.t = "str"
IsOptionalStr(x) == x.t = "str" \/ x = None

ValidationError(model, field) == Exception("ValidationError", <<model, field>>)
KeyError(key) == Exception("KeyError", <<key>>)

Action(name) ==
    IF IsStr(name) THEN Valid([name |-> name])
    ELSE Invalid(ValidationError("Action", "name"))

\* mutant: description declared str, without the None default
ECode_required_description(code, description) ==
    IF ~IsStr(code) THEN Invalid(ValidationError("ECode", "code"))
    ELSE IF ~IsStr(description)
    THEN Invalid(ValidationError("ECode", "description"))
    ELSE Valid([code |-> code, description |-> description])

ECode(code, description) ==
    IF ~IsStr(code) THEN Invalid(ValidationError("ECode", "code"))
    ELSE IF ~IsOptionalStr(description)
    THEN Invalid(ValidationError("ECode", "description"))
    ELSE Valid([code |-> code, description |-> description])

ProblemScenario(description) ==
    IF IsStr(description) THEN Valid([description |-> description])
    ELSE Invalid(ValidationError("ProblemScenario", "description"))

\* mutant: name declared Optional[str]
Symptom_optional(name) ==
    IF IsOptionalStr(name) THEN Valid([name |-> name])
    ELSE Invalid(ValidationError("Symptom", "name"))

Symptom(name) ==
    IF IsStr(name) THEN Valid([name |-> name])
    ELSE Invalid(ValidationError("Symptom", "name"))

\* r.get(key): None when the row has no such key
DictGet(r, key) == IF key \in DOMAIN r THEN r[key] ELSE None

\* [F(r) for r in results], given conv[i] = F(results[i]): the first row
\* whose conversion raises ends the comprehension, and no list is produced
ListComprehension(conv) ==
    LET bad == { i \in 1..Len(conv) : ~conv[i].ok }
    IN  IF bad # {}
        THEN Raise(conv[CHOOSE i \in bad : \A j \in bad : i <= j].error)
        ELSE Return([i \in 1..Len(conv) |-> conv[i].record])

(* ---------------------------------------------------------------------- *)
(* Neo4jTool                                                               *)
(* ---------------------------------------------------------------------- *)
ActionOfRow(r) ==
    IF "name" \in DOMAIN r THEN Action(r["name"]) ELSE Invalid(KeyError("name"))

ECodeOfRow(r) ==
    IF "code" \in DOMAIN r THEN ECode(r["code"], DictGet(r, "description"))
    ELSE Invalid(KeyError("code"))

ProblemScenarioOfRow(r) ==
    IF "description" \in DOMAIN r THEN ProblemScenario(r["description"])
    ELSE Invalid(KeyError("description"))

SymptomOfRow(r) ==
    IF "name" \in DOMAIN r THEN Symptom(r["name"]) ELSE Invalid(KeyError("name"))

get_all_actions(g) ==
    LET query == Query(ActionsQuery, NoParams)
    IN  { Effect(<<Logged(query, out)>>,
                 IF out.ok THEN ListComprehension(
                        [i \in 1..Len(out.rows) |-> ActionOfRow(out.rows[i])])
                 ELSE Raise(out.error)) : out \in graph_query(g, query) }

get_all_error_codes(g) ==
    LET query == Query(ErrorCodesQuery, NoParams)
    IN  { Effect(<<Logged(query, out)>>,
                 IF out.ok THEN ListComprehension(
                        [i \in 1..Len(out.rows) |-> ECodeOfRow(out.rows[i])])
                 ELSE Raise(out.error)) : out \in graph_query(g, query) }

get_all_problem_scenarios(g) ==
    LET query == Query(ScenariosQuery, NoParams)
    IN  { Effect(<<Logged(query, out)>>,
                 IF out.ok THEN ListComprehension(
                        [i \in 1..Len(out.rows) |-> ProblemScenarioOfRow(out.rows[i])])
                 ELSE Raise(out.error)) : out \in graph_query(g, query) }

\* mutant: a failed query is swallowed and an empty list returned
get_all_symptoms_fallback(g) ==
    LET query == Query(SymptomsQuery, NoParams)
    IN  { Effect(<<Logged(query, out)>>,
                 IF out.ok THEN ListComprehension(
                        [i \in 1..Len(out.rows) |-> SymptomOfRow(out.rows[i])])
                 ELSE Return(<<>>)) : out \in graph_query(g, query) }

get_all_symptoms(g) ==
    LET query == Query(SymptomsQuery, NoParams)
    IN  { Effect(<<Logged(query, out)>>,
                 IF out.ok THEN ListComprehension(
                        [i \in 1..Len(out.rows) |-> SymptomOfRow(out.rows[i])])
                 ELSE Raise(out.error)) : out \in graph_query(g, query) }

\* mutant: .get(label, "name"), a default key for labels not in the table
property_key_of_default(label) ==
    CASE label = "Action"          -> Str("name")
      [] label = "ECode"           -> Str("code")
      [] label = "ProblemScenario" -> Str("description")
      [] label = "Symptom"         -> Str("name")
      [] OTHER                     -> Str("name")

\* mutant: the table keyed by "ErrorCode", while the nodes are labelled ECode
property_key_of_renamed(label) ==
    CASE label = "Action"          -> Str("name")
      [] label = "ErrorCode"       -> Str("code")
      [] label = "ProblemScenario" -> Str("description")
      [] label = "Symptom"         -> Str("name")
      [] OTHER                     -> None

\* {"Action": "name", ...}.get(label)
property_key_of(label) ==
    CASE label = "Action"          -> Str("name")
      [] label = "ECode"           -> Str("code")
      [] label = "ProblemScenario" -> Str("description")
      [] label = "Symptom"         -> Str("name")
      [] OTHER                     -> None

\* Python truthiness of a str-or-None value
Truthy(x) == x # None /\ x # Str("")

Descriptor(record) ==
    [labels |-> record["node_labels"], properties |-> record["node"]]

\* mutant: neighbors[rel_type] = [d], the group is overwritten
SetDefaultAppend_overwrite(neighbors, rel_type, d) ==
    [k \in DOMAIN neighbors \cup {rel_type} |->
        IF k = rel_type THEN <<d>> ELSE neighbors[k]]

\* mutant: neighbors.setdefault(rel_type, []).insert(0, d)
SetDefaultAppend_prepend(neighbors, rel_type, d) ==
    IF rel_type \in DOMAIN neighbors
    THEN [neighbors EXCEPT ![rel_type] = <<d>> \o @]
    ELSE [k \in DOMAIN neighbors \cup {rel_type} |->
            IF k = rel_type THEN <<d>> ELSE neighbors[k]]

\* neighbors.setdefault(rel_type, []).append(d)
SetDefaultAppend(neighbors, rel_type, d) ==
    IF rel_type \in DOMAIN neighbors
    THEN [neighbors EXCEPT ![rel_type] = Append(@, d)]
    ELSE [k \in DOMAIN neighbors \cup {rel_type} |->
            IF k = rel_type THEN <<d>> ELSE neighbors[k]]

\* for record in results: ...
RECURSIVE GroupByRelType(_, _)
GroupByRelType(results, neighbors) ==
    IF results = <<>> THEN neighbors
    ELSE GroupByRelType(Tail(results),
            SetDefaultAppend(neighbors, Head(results)["rel_type"],
                             Descriptor(Head(results))))

EmptyDict == [k \in {} |-> <<>>]

UnknownLabel(label) == Exception("ValueError", <<"Unknown label: ", label>>)

get_neighbors(g, label, identifier) ==
    LET property_key == property_key_of(label)
    IN  IF ~Truthy(property_key)
        THEN { Effect(<<>>, Raise(UnknownLabel(label))) }
        ELSE LET query == Query(NeighborsQuery(label, property_key.v, identifier),
                                Params("identifier", identifier))
             IN  { Effect(<<Logged(query, out)>>,
                          IF out.ok
                          THEN Return(GroupByRelType(out.rows, EmptyDict))
                          ELSE Raise(out.error)) : out \in graph_query(g, query) }

(* ---------------------------------------------------------------------- *)
(* Tool functions                                                          *)
(* ---------------------------------------------------------------------- *)
possible_actions_list(g) == get_all_actions(g)
possible_error_codes_list(g) == get_all_error_codes(g)
possible_scenarios_list(g) == get_all_problem_scenarios(g)
possible_symptom_list(g) == get_all_symptoms(g)
get_entity_neighbors(g, label, identifier) == get_neighbors(g, label, identifier)

\* mutant: the name is looked up among the store's actions first
propose_correct_action_checked(g, correct_action) ==
    { Effect(e.queries,
             IF e.result.status = "raise" THEN e.result
             ELSE IF \E i \in 1..Len(e.result.value) :
                        e.result.value[i].name = Str(correct_action)
             THEN Return([name |-> Str(correct_action)])
             ELSE Raise(Exception("ValueError",
                                  <<"Unknown action: ", correct_action>>))) :
        e \in get_all_actions(g) }

\* mutant: the proposed action is written to the graph
propose_correct_action_persist(g, correct_action) ==
    LET query == Query(MergeActionQuery, Params("name", correct_action))
    IN  { Effect(<<Logged(query, out)>>,
                 IF out.ok THEN Return([name |-> Str(correct_action)])
                 ELSE Raise(out.error)) : out \in graph_query(g, query) }

propose_correct_action(g, correct_action) ==
    LET a == Action(Str(correct_action))
    IN  { Effect(<<>>, IF a.ok THEN Return(a.record) ELSE Raise(a.error)) }

(* ---------------------------------------------------------------------- *)
(* The orchestrator's inputs                                               *)
(* ---------------------------------------------------------------------- *)
Labels == {"Action", "ECode", "ErrorCode", "ProblemScenario", "Symptom", ""}
Identifiers == {"", "leaking water", "door seal worn", "E15", "E24"}
ActionNames == {"replace_motor", ""}

(* ---------------------------------------------------------------------- *)
(* State machine: the orchestrator calls the registered tools in any order *)
(* ---------------------------------------------------------------------- *)
Call(op, label, identifier, name) ==
    [op |-> op, label |-> label, identifier |-> identifier, name |-> name]

Init ==
    /\ store \in { g \in Stores : WellFormed(g) }
    /\ call = Call("none", "", "", "")
    /\ result = [status |-> "none", value |-> <<>>, error |-> NoException]
    /\ queries = <<>>

\* one tool call, start to finish: what it returns or raises, the queries it
\* sent, and the store after having executed them
Invoke(c, effects) ==
    \E eff \in effects :
        /\ call' = c
        /\ result' = eff.result
        /\ queries' = eff.queries
        /\ store' = graph_after_all(store, eff.queries)

CallPossibleActionsList ==
    Invoke(Call("possible_actions_list", "", "", ""),
           possible_actions_list(store))

CallPossibleErrorCodesList ==
    Invoke(Call("possible_error_codes_list", "", "", ""),
           possible_error_codes_list(store))

CallPossibleScenariosList ==
    Invoke(Call("possible_scenarios_list", "", "", ""),
           possible_scenarios_list(store))

CallPossibleSymptomList ==
    Invoke(Call("possible_symptom_list", "", "", ""),
           possible_symptom_list(store))

CallGetEntityNeighbors ==
    \E label \in Labels, identifier \in Identifiers :
        Invoke(Call("get_entity_neighbors", label, identifier, ""),
               get_entity_neighbors(store, label, identifier))

CallProposeCorrectAction ==
    \E correct_action \in ActionNames :
        Invoke(Call("propose_correct_action", "", "", correct_action),
               propose_correct_action(store, correct_action))

Next ==
    \/ CallPossibleActionsList
    \/ CallPossibleErrorCodesList
    \/ CallPossibleScenariosList
    \/ CallPossibleSymptomList
    \/ CallGetEntityNeighbors
    \/ CallProposeCorrectAction

Spec == Init /\ [][Next]_vars

(* ---------------------------------------------------------------------- *)
(* Vocabulary of the properties                                            *)
(* ---------------------------------------------------------------------- *)
Returned == result.status = "return"
Raised == result.status = "raise"

ListOps == {"possible_actions_list", "possible_error_codes_list",
            "possible_scenarios_list", "possible_symptom_list"}
IsListCall == call.op \in ListOps
IsNeighborsCall == call.op = "get_entity_neighbors"
IsProposeCall == call.op = "propose_correct_action"

\* the kind names as the specification text writes them, and as the source does
SpecKinds == {"Action", "ErrorCode", "ProblemScenario", "Symptom"}
CodeKinds == {"Action", "ECode", "ProblemScenario", "Symptom"}

KeyOfKind(kind) ==
    CASE kind \in {"Action", "Symptom"}  -> "name"
      [] kind \in {"ECode", "ErrorCode"} -> "code"
      [] kind = "ProblemScenario"        -> "description"

NaturalKey(op) ==
    CASE op = "possible_actions_list"     -> "name"
      [] op = "possible_error_codes_list" -> "code"
      [] op = "possible_scenarios_list"   -> "description"
      [] op = "possible_symptom_list"     -> "name"

StoreFailed == \E i \in 1..Len(queries) : ~queries[i].ok

IsUnknownLabelError(e, label) ==
    e.type = "ValueError" /\ e.args = <<"Unknown label: ", label>>

\* the graph holds no relationship at a node of this kind with this key value
NoAdjacency(g, kind, identifier) ==
    \A e \in g.edges : \A i \in {Edge(e).src, Edge(e).dst} :
        ~(HasLabel(Node(i), kind) /\ Node(i).props[KeyOfKind(kind)] = Str(identifier))

(* C1 as stated: get_entity_neighbors with a label outside {Action,         *)
(* ErrorCode, ProblemScenario, Symptom} always raises the unknown-label     *)
(* error, for every identifier, and never returns a mapping.                *)
C1_AsStated ==
    (IsNeighborsCall /\ call.label \notin SpecKinds)
        => (Raised /\ IsUnknownLabelError(result.error, call.label))

(* C1: get_entity_neighbors with a label outside {Action, ECode,            *)
(* ProblemScenario, Symptom} always raises ValueError "Unknown label:       *)
(* <label>", for every identifier including the empty string, and never     *)
(* returns a mapping.                                                       *)
C1_UnknownLabelRaises ==
    (IsNeighborsCall /\ call.label \notin CodeKinds)
        => (Raised /\ IsUnknownLabelError(result.error, call.label))

C1_Witness ==
    /\ IsNeighborsCall
    /\ call.label = "ErrorCode"
    /\ call.identifier = ""
    /\ Raised

(* C2 as stated: for each of Action, ErrorCode, ProblemScenario, Symptom    *)
(* and every identifier, get_entity_neighbors returns an empty mapping and  *)
(* does not raise whenever the store has no adjacency rows for it.          *)
C2_AsStated ==
    (/\ IsNeighborsCall
     /\ call.label \in SpecKinds
     /\ ~StoreFailed
     /\ NoAdjacency(store, call.label, call.identifier))
        => (Returned /\ DOMAIN result.value = {})

(* C2: for each of Action, ECode, ProblemScenario, Symptom and every        *)
(* identifier, get_entity_neighbors returns an empty mapping and does not   *)
(* raise whenever the store answers with no adjacency rows: the node has    *)
(* no relationships, or no node matches the identifier.                     *)
C2_EmptyMappingWhenNoRows ==
    (/\ IsNeighborsCall
     /\ call.label \in CodeKinds
     /\ ~StoreFailed
     /\ NoAdjacency(store, call.label, call.identifier))
        => (Returned /\ DOMAIN result.value = {})

C2_Witness ==
    /\ IsNeighborsCall
    /\ call.label = "ECode"
    /\ call.identifier = "E24"
    /\ Returned
    /\ DOMAIN result.value = {}

RowDescriptor(row) == [labels |-> row.node_labels, properties |-> row.node]

RowsOfType(rows, t) == { i \in 1..Len(rows) : rows[i].rel_type = t }

RECURSIVE SumOfLengths(_, _)
SumOfLengths(m, keys) ==
    IF keys = {} THEN 0
    ELSE LET k == CHOOSE x \in keys : TRUE
         IN  Len(m[k]) + SumOfLengths(m, keys \ {k})

(* C3: the mapping returned by get_entity_neighbors partitions the rows the *)
(* store returned by relationship type: its keys are exactly the types that *)
(* occur, each key maps to a non-empty sequence with as many entries as     *)
(* there are rows of that type, every row's descriptor {labels, properties} *)
(* is in its own type's group, and the group lengths sum to the row count.  *)
C3_GroupsPartitionRows ==
    (IsNeighborsCall /\ Returned) =>
        LET rows == queries[1].rows
            m == result.value
        IN  /\ Len(queries) = 1
            /\ DOMAIN m = { rows[i].rel_type : i \in 1..Len(rows) }
            /\ \A t \in DOMAIN m :
                  /\ Len(m[t]) >= 1
                  /\ Len(m[t]) = Cardinality(RowsOfType(rows, t))
                  /\ \A j \in 1..Len(m[t]) : \E i \in RowsOfType(rows, t) :
                        m[t][j] = RowDescriptor(rows[i])
            /\ \A i \in 1..Len(rows) : \E j \in 1..Len(m[rows[i].rel_type]) :
                  m[rows[i].rel_type][j] = RowDescriptor(rows[i])
            /\ SumOfLengths(m, DOMAIN m) = Len(rows)

\* two relationship types, one with two neighbors and one with one
C3_Witness ==
    /\ IsNeighborsCall
    /\ Returned
    /\ DOMAIN result.value = {"INDICATES", "FIXES"}
    /\ Len(result.value["INDICATES"]) = 2
    /\ Len(result.value["FIXES"]) = 1

(* C4 as stated: every record returned by the four list operations has its  *)
(* natural key non-null and non-empty.                                      *)
C4_AsStated ==
    (IsListCall /\ Returned) =>
        \A i \in 1..Len(result.value) :
            /\ result.value[i][NaturalKey(call.op)].t = "str"
            /\ result.value[i][NaturalKey(call.op)].v # ""

(* C4: every record returned by the four list operations has a string as    *)
(* its natural key, never null; the string may be empty.                    *)
C4_NaturalKeyIsString ==
    (IsListCall /\ Returned) =>
        \A i \in 1..Len(result.value) :
            result.value[i][NaturalKey(call.op)].t = "str"

C4_Witness ==
    /\ call.op = "possible_symptom_list"
    /\ Returned
    /\ Len(result.value) >= 1

Lacks(row, key) == key \notin DOMAIN row \/ row[key] = None

IsDataShapeError(e) == e.type \in {"ValidationError", "KeyError"}

DescriptionDefaultsToNull ==
    (call.op = "possible_error_codes_list" /\ Returned) =>
        \A i \in 1..Len(result.value) :
            Lacks(queries[1].rows[i], "description")
                => result.value[i].description = None

(* C5 as stated: converting the store's rows fails with a data-shape error  *)
(* exactly when a row lacks the kind's natural key (and then no partial     *)
(* list is returned); a row lacking only the optional description never     *)
(* fails and gives a record whose description is null.                      *)
C5_AsStated ==
    (IsListCall /\ ~StoreFailed) =>
        /\ (Raised /\ IsDataShapeError(result.error))
              <=> \E i \in 1..Len(queries[1].rows) :
                      Lacks(queries[1].rows[i], NaturalKey(call.op))
        /\ Raised => result.value = <<>>
        /\ DescriptionDefaultsToNull

\* the row's value for the key cannot populate a str field
NotAString(row, key) == Lacks(row, key) \/ row[key].t # "str"

(* C5: converting the store's rows fails with a data-shape error exactly    *)
(* when some row's natural key is missing, null or not a string, or an      *)
(* error code's description is present and neither null nor a string (and   *)
(* then no partial list is returned); a row lacking only the optional       *)
(* description never fails and gives a record whose description is null.    *)
C5_DataShapeErrorExactly ==
    (IsListCall /\ ~StoreFailed) =>
        /\ (Raised /\ IsDataShapeError(result.error))
              <=> \E i \in 1..Len(queries[1].rows) :
                      \/ NotAString(queries[1].rows[i], NaturalKey(call.op))
                      \/ /\ call.op = "possible_error_codes_list"
                         /\ ~Lacks(queries[1].rows[i], "description")
                         /\ queries[1].rows[i]["description"].t # "str"
        /\ Raised => result.value = <<>>
        /\ Returned => Len(result.value) = Len(queries[1].rows)
        /\ DescriptionDefaultsToNull

C5_Witness ==
    /\ call.op = "possible_error_codes_list"
    /\ Returned
    /\ \E i \in 1..Len(result.value) :
          /\ Lacks(queries[1].rows[i], "description")
          /\ result.value[i] = [code |-> Str("E15"), description |-> None]

(* C6: propose_correct_action(name) returns the Action record {name: name}  *)
(* for every name, also one that is not among the store's actions, never    *)
(* fails, and sends no query to the store.                                  *)
C6_ProposeIsPurePackaging ==
    IsProposeCall =>
        /\ Returned
        /\ result.value = [name |-> [t |-> "str", v |-> call.name]]
        /\ queries = <<>>

ActionInStore(g, name) ==
    \E n \in g.nodes : HasLabel(Node(n), "Action") /\ Node(n).props["name"] = Str(name)

C6_Witness ==
    /\ IsProposeCall
    /\ call.name = "replace_motor"
    /\ ~ActionInStore(store, "replace_motor")
    /\ Returned

(* C7: no tool call changes the store's nodes and relationships, and a      *)
(* possible_actions_list that follows a propose_correct_action of a name    *)
(* absent from the store does not list that name.                           *)
C7_StoreNeverWritten ==
    [][ /\ store' = store
        /\ (/\ IsProposeCall
            /\ ~ActionInStore(store, call.name)
            /\ call'.op = "possible_actions_list"
            /\ result'.status = "return")
              => \A i \in 1..Len(result'.value) :
                    result'.value[i].name # Str(call.name) ]_vars

\* an action absent from a non-empty graph has just been proposed
C7_Witness ==
    /\ IsProposeCall
    /\ call.name = ""
    /\ ~ActionInStore(store, "")
    /\ store.edges # {}

(* C8: when a query fails at the store, the list operations and             *)
(* get_entity_neighbors raise that same store error unmodified, having sent *)
(* exactly one query: no retry, no fallback query, no empty result instead. *)
C8_StoreErrorPropagates ==
    ((IsListCall \/ IsNeighborsCall) /\ StoreFailed) =>
        /\ Len(queries) = 1
        /\ Raised
        /\ result.error = queries[1].error
        /\ result.value = <<>>

C8_Witness ==
    /\ call.op = "possible_symptom_list"
    /\ StoreFailed
    /\ Raised
    /\ result.error.type = "ServiceUnavailable"

NeighborsQueryTextFor(label, key) ==
    << "MATCH (n:", label, " {", key,
       ": $identifier})-[r]-(m) RETURN type(r) AS rel_type, labels(m) AS node_labels, m AS node" >>

QueryTextSafe(kinds) ==
    IsNeighborsCall =>
        /\ call.label \notin kinds => queries = <<>>
        /\ \A i \in 1..Len(queries) :
              /\ call.label \in kinds
              /\ queries[i].text =
                    NeighborsQueryTextFor(call.label, KeyOfKind(call.label))
              /\ queries[i].params = { <<"identifier", call.identifier>> }
              /\ \A j \in 1..Len(queries[i].text) :
                    queries[i].text[j] # call.identifier

(* C9 as stated: every query get_entity_neighbors sends has text built only *)
(* from a label in {Action, ErrorCode, ProblemScenario, Symptom} and that   *)
(* label's key property; an unrecognized label sends no query; the          *)
(* identifier is only a bound parameter.                                    *)
C9_AsStated == QueryTextSafe(SpecKinds)

(* C9: every query get_entity_neighbors sends has text built only from a    *)
(* label in {Action, ECode, ProblemScenario, Symptom} and that label's      *)
(* fixed key property (name, code, description, name); a label outside the  *)
(* set sends no query; the identifier is only in the bound parameter map,   *)
(* never in the text.                                                       *)
C9_QueryTextFromClosedSet == QueryTextSafe(CodeKinds)

C9_Witness ==
    /\ IsNeighborsCall
    /\ call.label = "ECode"
    /\ call.identifier = "E15"
    /\ Len(queries) = 1
    /\ queries[1].ok

(* C10: within each relationship-type group of the returned mapping, the    *)
(* descriptors are in the order of their rows in the store's result: of    *)
(* two rows of the same type, the one returned first comes first.          *)
C10_GroupKeepsRowOrder ==
    (IsNeighborsCall /\ Returned) =>
        LET rows == queries[1].rows
            m == result.value
        IN  \A i, j \in 1..Len(rows) :
                (i < j /\ rows[i].rel_type = rows[j].rel_type) =>
                    \E a, b \in 1..Len(m[rows[i].rel_type]) :
                        /\ a < b
                        /\ m[rows[i].rel_type][a] = RowDescriptor(rows[i])
                        /\ m[rows[i].rel_type][b] = RowDescriptor(rows[j])

\* the store returned the error code's row before the symptom's
C10_Witness ==
    /\ IsNeighborsCall
    /\ Returned
    /\ Len(queries[1].rows) >= 2
    /\ queries[1].rows[1].rel_type = "INDICATES"
    /\ queries[1].rows[1].node_labels = <<"ECode">>
    /\ "INDICATES" \in DOMAIN result.value
    /\ Len(result.value["INDICATES"]) = 2
    /\ result.value["INDICATES"][1].labels = <<"ECode">>
    /\ result.value["INDICATES"][2].labels = <<"Symptom">>
====
